---- MODULE Spec2Model ----
(***************************************************************************)
(* Model of scripts/generate-map.py, the Auto-MAP generator for SPF packs. *)
(*                                                                         *)
(* The state is the pack directory (a tree of .md files), the run date,    *)
(* and what the invocations of main() have produced so far.  One action    *)
(* is one invocation of main(); the functions of the script are operators. *)
(*                                                                         *)
(* Text is modelled at character level: a string is a sequence of          *)
(* one-character strings, so that split("."), upper()[:2], sorting and the *)
(* write-then-rescan round trip of the generated map file are computed     *)
(* rather than assumed.  A file's content is modelled by what the script   *)
(* can observe of it: whether it can be read, what the frontmatter regex   *)
(* and yaml.safe_load make of it, and what the heading and "Pack ID"       *)
(* regexes capture.  Dates are day numbers; the ISO text of a date is its  *)
(* decimal numeral.                                                        *)
(***************************************************************************)
EXTENDS Integers, Sequences, FiniteSets, TLC

(***************************************************************************)
(* Bounds of the model.                                                    *)
(***************************************************************************)
MaxRuns == 4

MaxTicks == 1

MaxFiles == 2

FirstDay == 100

(***************************************************************************)
(* Characters and strings.                                                 *)
(***************************************************************************)
\* The characters of the model in code-point order.
CharOrder == <<" ", "#", "-", ".", "0", "1", "2", "3", "4", "5", "6", "7", "8", "9", "A", "B", "C", "D", "E", "F", "G", "H", "I", "J", "K", "L", "M", "N", "O", "P", "Q", "R", "S", "T", "U", "V", "W", "X", "Y", "Z", "_", "a", "b", "c", "d", "e", "f", "g", "h", "i", "j", "k", "l", "m", "n", "o", "p", "q", "r", "s", "t", "u", "v", "w", "x", "y", "z">>

Digits == <<"0", "1", "2", "3", "4", "5", "6", "7", "8", "9">>

Uppers == <<"A", "B", "C", "D", "E", "F", "G", "H", "I", "J", "K", "L", "M", "N", "O", "P", "Q", "R", "S", "T", "U", "V", "W", "X", "Y", "Z">>

Lowers == <<"a", "b", "c", "d", "e", "f", "g", "h", "i", "j", "k", "l", "m", "n", "o", "p", "q", "r", "s", "t", "u", "v", "w", "x", "y", "z">>

DigitChars == {Digits[i] : i \in DOMAIN Digits}

UpperChars == {Uppers[i] : i \in DOMAIN Uppers}

LowerChars == {Lowers[i] : i \in DOMAIN Lowers}

Ord == [c \in {CharOrder[i] : i \in DOMAIN CharOrder} |->
          CHOOSE i \in DOMAIN CharOrder : CharOrder[i] = c]

\* str.upper() and str.lower() of one character.
Upper(c) ==
  IF c \in LowerChars THEN Uppers[CHOOSE i \in DOMAIN Lowers : Lowers[i] = c] ELSE c

Lower(c) ==
  IF c \in UpperChars THEN Lowers[CHOOSE i \in DOMAIN Uppers : Uppers[i] = c] ELSE c

UpperStr(s) == [i \in 1..Len(s) |-> Upper(s[i])]

Prefix(s, n) == SubSeq(s, 1, IF n < Len(s) THEN n ELSE Len(s))

Drop(s, n) == SubSeq(s, n + 1, Len(s))

StartsWith(s, p) == Len(p) <= Len(s) /\ SubSeq(s, 1, Len(p)) = p

EndsWith(s, p) == Len(p) <= Len(s) /\ SubSeq(s, Len(s) - Len(p) + 1, Len(s)) = p

\* s[i] == c, false past the end of s.
CharIs(s, i, c) == i <= Len(s) /\ s[i] = c

\* a < b for str.
RECURSIVE StrLess(_, _)
StrLess(a, b) ==
  IF a = <<>> THEN b # <<>>
  ELSE IF b = <<>> THEN FALSE
  ELSE IF a[1] = b[1] THEN StrLess(Tail(a), Tail(b))
  ELSE Ord[a[1]] < Ord[b[1]]

\* str.split("."): the dot-separated segments, at least one.
RECURSIVE Split(_)
Split(s) ==
  IF \A i \in 1..Len(s) : s[i] # "."
  THEN <<s>>
  ELSE Split(SubSeq(s, 1, (CHOOSE k \in 1..Len(s) :
                             s[k] = "." /\ \A j \in (k + 1)..Len(s) : s[j] # ".") - 1))
         \o <<Drop(s, CHOOSE k \in 1..Len(s) :
                        s[k] = "." /\ \A j \in (k + 1)..Len(s) : s[j] # ".")>>

\* The number of consecutive characters of s from position i on that are in class.
RECURSIVE Run(_, _, _)
Run(s, i, class) ==
  IF i <= Len(s) /\ s[i] \in class THEN 1 + Run(s, i + 1, class) ELSE 0

\* str(n) of a natural number.
RECURSIVE Numeral(_)
Numeral(n) ==
  IF n < 10 THEN <<Digits[n + 1]>>
  ELSE Numeral(n \div 10) \o <<Digits[(n % 10) + 1]>>

\* int(s) of a numeral.
RECURSIVE NumeralValue(_)
NumeralValue(s) ==
  IF s = <<>> THEN 0
  ELSE 10 * NumeralValue(SubSeq(s, 1, Len(s) - 1))
         + (CHOOSE v \in 0..9 : Digits[v + 1] = s[Len(s)])

\* sorted(s, key=...) for string keys: a stable sort, keys[i] being the key of
\* s[i]; an element goes after those whose key is not greater.
SortedByStr(s, keys) ==
  [k \in 1..Len(s) |->
     s[CHOOSE i \in 1..Len(s) :
         k = 1 + Cardinality({j \in 1..Len(s) :
                   StrLess(keys[j], keys[i])
                     \/ (~StrLess(keys[i], keys[j]) /\ j < i)})]]

\* sorted(s, key=...) for integer keys, stable likewise.
SortedByInt(s, keys) ==
  [k \in 1..Len(s) |->
     s[CHOOSE i \in 1..Len(s) :
         k = 1 + Cardinality({j \in 1..Len(s) :
                   keys[j] < keys[i] \/ (keys[j] = keys[i] /\ j < i)})]]

\* A set of strings in sorted() order.
SortedStrs(S) ==
  [k \in 1..Cardinality(S) |->
     CHOOSE x \in S : k = 1 + Cardinality({y \in S : StrLess(y, x)})]

(***************************************************************************)
(* Text constants of the script.                                           *)
(***************************************************************************)
ManifestName == <<"0", "0", "-", "p", "a", "c", "k", "-", "m", "a", "n", "i", "f", "e", "s", "t", ".", "m", "d">>

OntologyName == <<"o", "n", "t", "o", "l", "o", "g", "y", ".", "m", "d">>

MapDirName == <<"0", "7", "-", "m", "a", "p">>

MapIdSuffix == <<".", "M", "A", "P", ".", "0", "0", "1">>

MdSuffix == <<".", "m", "d">>

MapName == <<"P", "a", "c", "k", " ", "N", "a", "v", "i", "g", "a", "t", "i", "o", "n", " ", "M", "a", "p">>

UNKNOWN == <<"U", "N", "K", "N", "O", "W", "N">>

NoneText == <<"N", "o", "n", "e">>

\* Stands for the em dash the renderer puts where a field is absent.
Placeholder == <<"-">>

K_D == <<"D">>

K_R == <<"R">>

K_M == <<"M">>

K_WP == <<"W", "P">>

K_FM == <<"F", "M">>

K_SOTA == <<"S", "O", "T", "A">>

K_MAP == <<"M", "A", "P">>

K_CHR == <<"C", "H", "R">>

K_OA == <<"O", "A">>

KIND_LABELS ==
  [k \in {K_D, K_R, K_M, K_WP, K_FM, K_SOTA, K_MAP, K_CHR, K_OA} |->
     CASE k = K_D -> <<"D", "i", "s", "t", "i", "n", "c", "t", "i", "o", "n", "s">>
       [] k = K_R -> <<"R", "o", "l", "e", "s">>
       [] k = K_M -> <<"M", "e", "t", "h", "o", "d", "s">>
       [] k = K_WP -> <<"W", "o", "r", "k", " ", "P", "r", "o", "d", "u", "c", "t", "s">>
       [] k = K_FM -> <<"F", "a", "i", "l", "u", "r", "e", " ", "M", "o", "d", "e", "s">>
       [] k = K_SOTA -> <<"S", "o", "T", "A", " ", "A", "n", "n", "o", "t", "a", "t", "i", "o", "n", "s">>
       [] k = K_MAP -> <<"M", "a", "p", "s">>
       [] k = K_CHR -> <<"C", "h", "a", "r", "a", "c", "t", "e", "r", "i", "s", "t", "i", "c", "s">>
       [] k = K_OA -> <<"O", "b", "j", "e", "c", "t", "s", " ", "o", "f", " ", "A", "t", "t", "e", "n", "t", "i", "o", "n">>]

\* KIND_LABELS.get(kind, kind)
KindLabel(kind) == IF kind \in DOMAIN KIND_LABELS THEN KIND_LABELS[kind] ELSE kind

\* The kinds that get a "## <label>" section, in the order of the loop.
SectionKinds == <<K_D, K_R, K_M, K_WP, K_FM, K_SOTA, K_MAP>>

base_kinds == {K_D, K_R, K_M, K_WP, K_FM, K_SOTA, K_MAP, K_CHR, K_OA}

\* The age in days above which a record is reported stale.
StaleDays == 90

(***************************************************************************)
(* Values of frontmatter fields, as yaml.safe_load constructs them: a      *)
(* string, null, an integer (s is its numeral), a date or a datetime (d is *)
(* its day number).  Absent stands for a key that is not in the mapping.   *)
(***************************************************************************)
Absent == [t |-> "absent", s |-> <<>>, d |-> 0]

NullV == [t |-> "null", s |-> <<>>, d |-> 0]

StrV(s) == [t |-> "str", s |-> s, d |-> 0]

DateV(d) == [t |-> "date", s |-> <<>>, d |-> d]

DateTimeV(d) == [t |-> "datetime", s |-> <<>>, d |-> d]

Has(data, key) == data[key].t # "absent"

\* Python truthiness of a value.
Truthy(v) ==
  CASE v.t = "str" -> v.s # <<>>
    [] v.t \in {"date", "datetime"} -> TRUE
    [] OTHER -> FALSE

\* str(v), what an f-string puts for the value.
Format(v) ==
  CASE v.t = "str" -> v.s
    [] v.t \in {"date", "datetime"} -> Numeral(v.d)
    [] OTHER -> NoneText

\* e.get(key, "—") as rendered in a table row.
GetOr(data, key) == IF Has(data, key) THEN Format(data[key]) ELSE Placeholder

Keys == {"id", "name", "summary", "status", "last_updated", "pack_id"}

NoData == [k \in Keys |-> Absent]

(***************************************************************************)
(* A path is the sequence of its parts below the pack directory; sorted()  *)
(* orders paths part by part.                                              *)
(***************************************************************************)
FileName(p) == p[Len(p)]

\* Path.stem of a file name: the name without its last suffix.
Stem(name) ==
  IF \E i \in 2..(Len(name) - 1) : name[i] = "."
  THEN SubSeq(name, 1, (CHOOSE i \in 2..(Len(name) - 1) :
                          name[i] = "." /\ \A j \in (i + 1)..(Len(name) - 1) : name[j] # ".") - 1)
  ELSE name

RECURSIVE PathLess(_, _)
PathLess(p, q) ==
  IF p = <<>> THEN q # <<>>
  ELSE IF q = <<>> THEN FALSE
  ELSE IF p[1] = q[1] THEN PathLess(Tail(p), Tail(q))
  ELSE StrLess(p[1], q[1])

\* A set of paths in sorted() order.
SortedPaths(ps) ==
  [k \in 1..Cardinality(ps) |->
     CHOOSE p \in ps : k = 1 + Cardinality({q \in ps : PathLess(q, p)})]

\* sorted(pack_dir.rglob("*.md")) over the files of a tree.
RglobMd(tr) == SortedPaths({p \in DOMAIN tr : EndsWith(FileName(p), MdSuffix)})

(***************************************************************************)
(* What the script can observe of a file:                                  *)
(*   readable  read_text succeeds                                          *)
(*   fm        what the frontmatter regex and yaml.safe_load make of the   *)
(*             text: "none" (no block), "yamlerr" (yaml.YAMLError),        *)
(*             "valerr" (an exception that is no YAMLError, such as the    *)
(*             ValueError of a timestamp like 2024-02-30), "nondict" (a    *)
(*             list or a scalar), "dict" (a mapping)                       *)
(*   data      the mapping, for "dict"                                     *)
(*   heading   the name the "## [..] <Name>" heading regex captures        *)
(*   label     the text that follows a "Pack ID:" label                    *)
(***************************************************************************)
File(readable, fm, data, heading, label) ==
  [readable |-> readable, fm |-> fm, data |-> data, heading |-> heading,
   label |-> label]

\* re.sub(r"^[A-Z]+\.[A-Z]+\.\d+-?", "", slug): the length of the prefix the
\* regex removes, 0 when it does not match.  IdPrefixDigits: the digits start
\* at position i and there are n of them.
IdPrefixDigits(slug, i, n) ==
  IF n >= 1 THEN (IF CharIs(slug, i + n, "-") THEN i + n ELSE i + n - 1) ELSE 0

\* The second run of capitals starts at position i and is n long.
IdPrefixKind(slug, i, n) ==
  IF n >= 1 /\ CharIs(slug, i + n, ".")
  THEN IdPrefixDigits(slug, i + n + 1, Run(slug, i + n + 1, DigitChars))
  ELSE 0

\* The first run of capitals is n long.
IdPrefixDomain(slug, n) ==
  IF n >= 1 /\ CharIs(slug, n + 1, ".")
  THEN IdPrefixKind(slug, n + 2, Run(slug, n + 2, UpperChars))
  ELSE 0

IdPrefixLen(slug) == IdPrefixDomain(slug, Run(slug, 1, UpperChars))

\* str.title(): a letter is upper-cased unless a letter precedes it.
Title(s) ==
  [i \in 1..Len(s) |->
     IF i > 1 /\ s[i - 1] \in UpperChars \cup LowerChars
     THEN Lower(s[i]) ELSE Upper(s[i])]

\* slug.replace("-", " ").title()
TitleCase(slug) ==
  Title([i \in 1..Len(slug) |-> IF slug[i] = "-" THEN " " ELSE slug[i]])

\* "if slug: data["name"] = ..."
SlugName(slug) == IF slug # <<>> THEN StrV(TitleCase(slug)) ELSE Absent

\* The name taken from the file name: the stem less its id prefix.
StemName(stem) == SlugName(Drop(stem, IdPrefixLen(stem)))

\* The name parse_frontmatter gives a record that has none: from the heading,
\* else from the file name; with neither the record stays without a name.
DeriveName(path, file) ==
  IF file.heading.t # "absent" THEN file.heading
  ELSE StemName(Stem(FileName(path)))

NoRecord == [st |-> "none", path |-> <<>>, data |-> NoData]

Raised == [st |-> "raise", path |-> <<>>, data |-> NoData]

\* parse_frontmatter(filepath): "none" for None, "rec" for a record (a mapping
\* with an id key, the path attached), "raise" for an exception that escapes.
parse_frontmatter(path, file) ==
  IF ~file.readable THEN NoRecord
  ELSE IF file.fm = "none" THEN NoRecord
  ELSE IF file.fm = "valerr" THEN Raised
  ELSE IF file.fm = "yamlerr" THEN NoRecord
  ELSE IF file.fm = "dict" /\ Has(file.data, "id")
  THEN [st |-> "rec", path |-> path,
        data |-> IF Has(file.data, "name") THEN file.data
                 ELSE [file.data EXCEPT !["name"] = DeriveName(path, file)]]
  ELSE NoRecord

\* classify_kind(entity_id), for a string id.
classify_kind(entity_id) ==
  IF Len(Split(entity_id)) >= 3 THEN Split(entity_id)[2] ELSE UNKNOWN

(***************************************************************************)
(* The scan shared by generate_map and generate_entity_index.              *)
(***************************************************************************)
\* A scan that, besides the files the loops skip, would leave the generated
\* maps out.
SkippedWithMaps(p) ==
  \/ StartsWith(FileName(p), <<"_">>)
  \/ FileName(p) \in {ManifestName, OntologyName}
  \/ p[1] = MapDirName

\* The "continue" tests of the two loops: templates, the manifest, ontology.md.
Skipped(p) ==
  \/ StartsWith(FileName(p), <<"_">>)
  \/ FileName(p) \in {ManifestName, OntologyName}

ParseAll(tr, paths) ==
  [i \in 1..Len(paths) |-> parse_frontmatter(paths[i], tr[paths[i]])]

\* parse_frontmatter of every file the loop does not skip, in path order.
Scan(tr) == ParseAll(tr, SelectSeq(RglobMd(tr), LAMBDA p : ~Skipped(p)))

\* "if fm: entities.append(fm)": a record is a non-empty dict, hence true.
Collect(scan) == SelectSeq(scan, LAMBDA r : r.st = "rec")

ScanRaises(scan) == \E i \in 1..Len(scan) : scan[i].st = "raise"

\* e["id"].split(".") raises AttributeError unless the id is a string.
BadId(e) == e.data["id"].t # "str"

\* date.today() - lu raises TypeError for a datetime, which passes
\* isinstance(last_updated, date).
BadDate(e) == e.data["last_updated"].t = "datetime"

Ids(es) == [i \in 1..Len(es) |-> es[i].data["id"].s]

\* One "| id | name | summary | status |" row of a category table.
MapRow(e) ==
  <<e.data["id"].s, GetOr(e.data, "name"), GetOr(e.data, "summary"),
    GetOr(e.data, "status")>>

\* by_kind[kind]: the records of a kind, in scan order.
ByKind(es, kind) == SelectSeq(es, LAMBDA e : classify_kind(e.data["id"].s) = kind)

\* The rows of a table, for records already in order.
Rows(kind, srt) ==
  [kind |-> kind, label |-> KindLabel(kind),
   rows |-> [i \in 1..Len(srt) |-> MapRow(srt[i])]]

\* sorted(by_kind[kind], key=lambda x: x["id"])
SortedById(es) == SortedByStr(es, Ids(es))

\* The table of one kind: its label and its records' rows, sorted by id.
KindTable(es, kind) == Rows(kind, SortedById(ByKind(es, kind)))

\* A variant of the validation test that warns when the summary is empty or
\* null as well as when the key is missing.
NeedsWarningFalsy(e) == ~Truthy(e.data["summary"])

\* "summary" not in fm
NeedsWarning(e) == ~Has(e.data, "summary")

\* f"Missing `summary`: {fm['id']} ({md_file.name})"
WarningOf(e) == <<Format(e.data["id"]), FileName(e.path)>>

WarningsOf(ws) == [i \in 1..Len(ws) |-> WarningOf(ws[i])]

\* The warnings, one per record without summary, in scan order.
Warnings(es) == WarningsOf(SelectSeq(es, LAMBDA e : NeedsWarning(e)))

\* datetime.strptime(s, "%Y-%m-%d").date(): the text of a date is its numeral.
StrptimeOk(s) == s # <<>> /\ \A i \in 1..Len(s) : s[i] \in DigitChars

\* Whether the staleness loop computes a day count for the record, not "continue".
HasDate(e) ==
  /\ Truthy(e.data["last_updated"])
  /\ \/ e.data["last_updated"].t = "str" /\ StrptimeOk(e.data["last_updated"].s)
     \/ e.data["last_updated"].t = "date"

\* The day number of a last_updated that HasDate.
DayOf(lu) == IF lu.t = "str" THEN NumeralValue(lu.s) ELSE lu.d

\* (date.today() - lu).days
DaysSince(e, today) == today - DayOf(e.data["last_updated"])

\* A variant of the threshold test that includes the threshold itself.
IsStaleInclusive(days) == days >= StaleDays

\* days > 90
IsStale(days) == days > StaleDays

StaleRows(st, today) ==
  [i \in 1..Len(st) |-> <<st[i].data["id"].s, DaysSince(st[i], today)>>]

\* sorted(stale, key=lambda x: -x[1])
SortedStale(rows) == SortedByInt(rows, [i \in 1..Len(rows) |-> 0 - rows[i][2]])

\* The staleness rows: (id, days) of the stale records, largest day count first.
Stale(es, today) ==
  SortedStale(StaleRows(
    SelectSeq(es, LAMBDA e : HasDate(e) /\ IsStale(DaysSince(e, today))), today))

\* by_kind.keys()
KindsOf(es) == {classify_kind(es[i].data["id"].s) : i \in 1..Len(es)}

\* "| {label} ({kind}) | {len(by_kind[kind])} |" for each kind in sorted order.
Statistics(es, by_kind) ==
  [i \in 1..Len(by_kind) |->
     <<KindLabel(by_kind[i]), by_kind[i], Len(ByKind(es, by_kind[i]))>>]

Tables(es, kinds) == [i \in 1..Len(kinds) |-> KindTable(es, kinds[i])]

\* The document generate_map renders from the collected records.
Render(es, kinds, domain, today) ==
  [domain |-> domain,
   today |-> today,
   stats |-> Statistics(es, SortedStrs(kinds)),
   total |-> Len(es),
   sections |-> Tables(es, SelectSeq(SectionKinds, LAMBDA k : k \in kinds)),
   extended |-> Tables(es, SortedStrs(kinds \ base_kinds)),
   warnings |-> Warnings(es),
   stale |-> Stale(es, today)]

MapOf(es, domain, today) ==
  IF \E i \in 1..Len(es) : BadId(es[i]) \/ BadDate(es[i])
  THEN [ok |-> FALSE, entities |-> es, content |-> <<>>]
  ELSE [ok |-> TRUE, entities |-> es,
        content |-> <<Render(es, KindsOf(es), domain, today)>>]

MapOfScan(scan, domain, today) ==
  IF ScanRaises(scan)
  THEN [ok |-> FALSE, entities |-> <<>>, content |-> <<>>]
  ELSE MapOf(Collect(scan), domain, today)

\* generate_map(pack_dir, domain): ok is FALSE when an exception escapes; content
\* holds the rendered document, entities what the scan collected.
generate_map(tr, domain, today) == MapOfScan(Scan(tr), domain, today)

\* One "| id | name | kind | summary | status |" row of the Entity Index.
IndexRow(e) ==
  <<e.data["id"].s, GetOr(e.data, "name"), classify_kind(e.data["id"].s),
    GetOr(e.data, "summary"), GetOr(e.data, "status")>>

IndexRows(srt) == [i \in 1..Len(srt) |-> IndexRow(srt[i])]

IndexOf(es) ==
  IF \E i \in 1..Len(es) : BadId(es[i])
  THEN [ok |-> FALSE, rows |-> <<>>]
  ELSE [ok |-> TRUE, rows |-> IndexRows(SortedById(es))]

IndexOfScan(scan) ==
  IF ScanRaises(scan) THEN [ok |-> FALSE, rows |-> <<>>] ELSE IndexOf(Collect(scan))

\* generate_entity_index(pack_dir): the rows below the header, sorted by id.
generate_entity_index(tr) == IndexOfScan(Scan(tr))

(***************************************************************************)
(* detect_domain.                                                          *)
(***************************************************************************)
ManifestPath == <<ManifestName>>

NotFound == [st |-> "none", v |-> Absent]

Found(v) == [st |-> "found", v |-> v]

Raise == [st |-> "raise", v |-> Absent]

\* The next strategy is tried only when the one before it found nothing.
OrElse(first, second) == IF first.st # "none" THEN first ELSE second

\* The ([A-Z]{2,4}) group, given the n capitals that start the text.
LabelCapture(text, n) == IF n >= 2 THEN Prefix(text, IF n > 4 THEN 4 ELSE n) ELSE <<>>

\* re.search(r"Pack ID[*]*:\s*`?([A-Z]{2,4})`?", content): the code captured from
\* the text after the label, <<>> when the regex does not match.
LabelCode(label) ==
  IF label.t = "absent" THEN <<>>
  ELSE LabelCapture(label.s, Run(label.s, 1, UpperChars))

\* "if fm and "id" in fm": parts = fm["id"].split("."); parts[0] when there are
\* two parts or more.
RecordPrefix(fm) ==
  IF fm.st = "raise" THEN Raise
  ELSE IF fm.st = "none" THEN NotFound
  ELSE IF BadId(fm) THEN Raise
  ELSE IF Len(Split(fm.data["id"].s)) >= 2 THEN Found(StrV(Split(fm.data["id"].s)[1]))
  ELSE NotFound

\* One turn of the fallback loop.
FilePrefix(p, tr) ==
  IF StartsWith(FileName(p), <<"_">>) \/ FileName(p) = ManifestName THEN NotFound
  ELSE RecordPrefix(parse_frontmatter(p, tr[p]))

\* The fallback loop over the files: the first dot-segment of the first id that
\* has two segments or more.
RECURSIVE FirstIdPrefix(_, _)
FirstIdPrefix(paths, tr) ==
  IF paths = <<>> THEN NotFound
  ELSE OrElse(FilePrefix(Head(paths), tr), FirstIdPrefix(Tail(paths), tr))

\* "if fm and "pack_id" in fm: return fm["pack_id"]"
PackIdOf(fm) ==
  IF fm.st = "raise" THEN Raise
  ELSE IF fm.st = "rec" /\ Has(fm.data, "pack_id") THEN Found(fm.data["pack_id"])
  ELSE NotFound

\* The frontmatter of the manifest, when there is a manifest.
ManifestPackId(tr) ==
  IF ManifestPath \in DOMAIN tr
  THEN PackIdOf(parse_frontmatter(ManifestPath, tr[ManifestPath]))
  ELSE NotFound

\* The body text of the manifest: its "Pack ID" label, when the file can be read.
ManifestLabel(tr) ==
  IF ManifestPath \in DOMAIN tr /\ tr[ManifestPath].readable
       /\ LabelCode(tr[ManifestPath].label) # <<>>
  THEN Found(StrV(LabelCode(tr[ManifestPath].label)))
  ELSE NotFound

\* pack_dir.name.upper()[:2]
DirNameCode(dirName) == Prefix(UpperStr(dirName), 2)

\* detect_domain(pack_dir): st is "found" with the value returned, or "raise".
detect_domain(tr, dirName) ==
  OrElse(ManifestPackId(tr),
    OrElse(ManifestLabel(tr),
      OrElse(FirstIdPrefix(RglobMd(tr), tr),
        Found(StrV(DirNameCode(dirName))))))

(***************************************************************************)
(* The map file as written and as a later scan reads it back.              *)
(***************************************************************************)
\* yaml.safe_load of a plain scalar that has its leading blanks dropped: nothing,
\* or a comment, is null; the text of a date is a date; anything else a string.
YamlResolve(body) ==
  IF body = <<>> \/ body[1] = "#" THEN NullV
  ELSE IF StrptimeOk(body) THEN DateV(NumeralValue(body))
  ELSE StrV(body)

YamlScalar(text) == YamlResolve(Drop(text, Run(text, 1, {" "})))

\* map_dir / f"{domain}.MAP.001.md"
MapPath(domain) == <<MapDirName, domain \o MapIdSuffix \o MdSuffix>>

\* What is observable of the text generate_map returns once it is a file: the
\* frontmatter "id: {domain}.MAP.001", "name: Pack Navigation Map",
\* "last_updated: {today}" (scope, created and generated are never read); its
\* "# [..]" title is no "## [..]" heading and it has no "Pack ID" label.
MapFile(domain, today) ==
  File(TRUE, "dict",
       [NoData EXCEPT !["id"] = YamlScalar(domain \o MapIdSuffix),
                      !["name"] = YamlScalar(MapName),
                      !["last_updated"] = YamlScalar(Numeral(today))],
       Absent, Absent)

\* map_file.write_text(map_content): the file is created or overwritten.
WriteFile(tr, path, file) ==
  [p \in DOMAIN tr \cup {path} |-> IF p = path THEN file ELSE tr[p]]

(***************************************************************************)
(* main.                                                                   *)
(***************************************************************************)
\* What one run of main on the pack directory did: stage is "done", or the call
\* an exception escaped from ("detect", "map", "index"); map holds the content
\* written to the map file, index the rows printed, tree the directory left.
Outcome(stage, date, domain, entities, map, index, tr) ==
  [stage |-> stage, date |-> date, domain |-> domain, entities |-> entities,
   map |-> map, index |-> index, tree |-> tr]

\* entity_index = generate_entity_index(pack_dir); print(entity_index)
PrintIndex(date, domain, gm, written, gi) ==
  Outcome(IF gi.ok THEN "done" ELSE "index", date, domain, gm.entities,
          gm.content, IF gi.ok THEN <<gi.rows>> ELSE <<>>, written)

\* The Entity Index of the directory with the map file in it.
IndexAfterWrite(date, domain, gm, written) ==
  PrintIndex(date, domain, gm, written, generate_entity_index(written))

\* map_file.write_text(map_content), unless generate_map raised.
WriteMap(tr, date, domain, gm) ==
  IF ~gm.ok THEN Outcome("map", date, domain, gm.entities, <<>>, <<>>, tr)
  ELSE IndexAfterWrite(date, domain, gm,
         WriteFile(tr, MapPath(Format(domain)), MapFile(Format(domain), date)))

\* map_content = generate_map(pack_dir, domain)
GenerateMap(tr, date, dd) ==
  IF dd.st = "raise" THEN Outcome("detect", date, Absent, <<>>, <<>>, <<>>, tr)
  ELSE WriteMap(tr, date, dd.v, generate_map(tr, Format(dd.v), date))

\* main() from "domain = detect_domain(pack_dir)" on.
RunMain(tr, name, date) == GenerateMap(tr, date, detect_domain(tr, name))

\* The lines main prints.
Stdout(r, name, manifestFlag) ==
  (IF r.stage = "detect" THEN <<>>
   ELSE << <<"Domain", Format(r.domain)>>, <<"Pack directory", name>> >>)
  \o (IF r.map = <<>> THEN <<>>
      ELSE << <<"MAP written to", MapPath(Format(r.domain))>> >>)
  \o (IF r.index = <<>> THEN <<>>
      ELSE (IF manifestFlag THEN << <<"Entity Index (for manifest)", <<>> >> >>
            ELSE <<>>)
           \o << <<"## Entity Index", r.index[1]>> >>)

(***************************************************************************)
(* The files and directory names the initial pack directory is drawn from. *)
(***************************************************************************)
Rec(id, summary, last_updated) ==
  File(TRUE, "dict",
       [NoData EXCEPT !["id"] = id, !["summary"] = summary,
                      !["last_updated"] = last_updated],
       Absent, Absent)

Manifest(id, pack_id, label) ==
  File(TRUE, "dict", [NoData EXCEPT !["id"] = id, !["pack_id"] = pack_id],
       Absent, label)

Broken(readable, fm) == File(readable, fm, NoData, Absent, Absent)

PathA == <<<<"0", "1">>, <<"D", ".", "M", ".", "1", "-", "a", "b", ".", "m", "d">>>>

PathB == <<<<"b">>, <<"D", ".", "M", ".", "1", "-", "a", "b", ".", "m", "d">>>>

PathOntology == <<OntologyName>>

PathTemplate == <<<<"_", "t", ".", "m", "d">>>>

\* Records with every kind of id, summary and last_updated.
EntityFiles ==
  { Rec(StrV(<<"D", ".", "M", ".", "1">>), StrV(<<"s">>), StrV(Numeral(FirstDay))),
    Rec(StrV(<<"D", ".", "M", ".", "1">>), Absent, DateV(FirstDay - StaleDays)),
    Rec(StrV(<<"D", ".", "C", "H", "R", ".", "1">>), StrV(<<"s">>), StrV(Numeral(FirstDay - StaleDays - 1))),
    Rec(StrV(<<"E", ".", "X", ".", "1">>), StrV(<<>>), DateV(FirstDay - StaleDays - 5)),
    Rec(StrV(<<"D">>), Absent, StrV(<<"j", "u", "n", "k">>)),
    Rec(StrV(<<>>), StrV(<<"s">>), Absent),
    Rec(NullV, StrV(<<"s">>), Absent),
    Rec(StrV(<<"D", ".", "R", ".", "1">>), StrV(<<"s">>), DateTimeV(FirstDay)) }

\* Files that are no entity documents.
BrokenFiles ==
  { File(TRUE, "dict", [NoData EXCEPT !["summary"] = StrV(<<"s">>)], StrV(<<"H">>), Absent),
    Broken(FALSE, "none"),
    Broken(TRUE, "none"),
    Broken(TRUE, "yamlerr"),
    Broken(TRUE, "valerr"),
    Broken(TRUE, "nondict") }

OtherFiles ==
  { Rec(StrV(<<"D", ".", "M", ".", "1">>), Absent, Absent),
    Rec(StrV(<<"D", ".", "M", ".", "1">>), StrV(<<"s">>), DateV(FirstDay - StaleDays - 5)),
    Rec(StrV(<<"D", ".", "O", "A", ".", "1">>), Absent, StrV(Numeral(FirstDay - StaleDays - 1))),
    Rec(StrV(<<"E", ".", "R", ".", "1">>), NullV, DateV(FirstDay)) }

ManifestFiles ==
  { Manifest(StrV(<<"D", "P", ".", "M", "F", ".", "1">>), StrV(<<"D", "P">>), Absent),
    Manifest(Absent, StrV(<<"D", "P">>), Absent),
    Manifest(Absent, StrV(<<"D", "P">>), StrV(<<"X", "Y">>)),
    Manifest(StrV(<<"D", "P", ".", "M", "F", ".", "1">>), Absent, Absent),
    File(TRUE, "none", NoData, Absent, StrV(<<"D", "P", "X", "Y", "Z">>)),
    Broken(FALSE, "none") }

FilePool ==
  ({PathA} \X (EntityFiles \cup BrokenFiles)) \cup ({PathB} \X OtherFiles)
    \cup ({ManifestPath} \X ManifestFiles)
    \cup {<<PathOntology, Rec(StrV(<<"O", "N", ".", "D", ".", "1">>), StrV(<<"s">>), Absent)>>,
          <<PathTemplate, Rec(StrV(<<"T", ".", "M", ".", "1">>), Absent, Absent)>>}

\* The pack directories of at most n files of a pool, no two at one path.
RECURSIVE TreesUpTo(_, _)
TreesUpTo(pool, n) ==
  IF n = 0 THEN {[p \in {} |-> Absent]}
  ELSE TreesUpTo(pool, n - 1) \cup
         {WriteFile(x[1], x[2][1], x[2][2]) :
            x \in {y \in TreesUpTo(pool, n - 1) \X pool : y[2][1] \notin DOMAIN y[1]}}

DirNames == {<<"p", "k">>, <<"a", ".", "b">>, <<" ", "q">>}

\* sys.argv[1:]: nothing, a path that is no directory, the pack directory, the
\* pack directory and --manifest.
Argvs ==
  { [path |-> "none", manifest |-> FALSE], [path |-> "missing", manifest |-> FALSE],
    [path |-> "pack", manifest |-> FALSE], [path |-> "pack", manifest |-> TRUE] }

(***************************************************************************)
(* State.                                                                  *)
(*   tree       the pack directory: path -> file                           *)
(*   dirName    the name of the pack directory                             *)
(*   argv       the command line the script is invoked with                *)
(*   today      date.today()                                               *)
(*   runs       the number of invocations of main on the pack directory    *)
(*   cur, prev  what the latest such invocation and the one before it did  *)
(*   exit_code, stdout  of the latest invocation of the script             *)
(***************************************************************************)
VARIABLES tree, dirName, argv, today, runs, cur, prev, exit_code, stdout

vars == <<tree, dirName, argv, today, runs, cur, prev, exit_code, stdout>>

NoRun ==
  [stage |-> "none", date |-> 0, domain |-> Absent, entities |-> <<>>,
   map |-> <<>>, index |-> <<>>]

Fresh ==
  /\ today = FirstDay
  /\ runs = 0
  /\ cur = NoRun
  /\ prev = NoRun
  /\ exit_code = 0
  /\ stdout = <<>>

Init ==
  /\ tree \in TreesUpTo(FilePool, MaxFiles)
  /\ dirName \in DirNames
  /\ argv \in Argvs
  /\ Fresh

\* main() with no argument: the usage line, sys.exit(1).
MainNoArgument ==
  /\ argv.path = "none"
  /\ exit_code' = 1
  /\ stdout' = << <<"Usage", <<>> >> >>
  /\ UNCHANGED <<tree, dirName, argv, today, runs, cur, prev>>

\* main() on a path that is no directory: the error line, sys.exit(1).
MainNotADirectory ==
  /\ argv.path = "missing"
  /\ exit_code' = 1
  /\ stdout' = << <<"Error: not a directory", <<>> >> >>
  /\ UNCHANGED <<tree, dirName, argv, today, runs, cur, prev>>

\* main() on the pack directory.
Main ==
  /\ argv.path = "pack"
  /\ runs < MaxRuns
  /\ \E r \in {RunMain(tree, dirName, today)} :
       /\ tree' = r.tree
       /\ cur' = [k \in DOMAIN NoRun |-> r[k]]
       /\ exit_code' = IF r.stage = "done" THEN 0 ELSE 1
       /\ stdout' = Stdout(r, dirName, argv.manifest)
  /\ prev' = cur
  /\ runs' = runs + 1
  /\ UNCHANGED <<dirName, argv, today>>

\* A day passes between two invocations.
Tick ==
  /\ today < FirstDay + MaxTicks
  /\ today' = today + 1
  /\ UNCHANGED <<tree, dirName, argv, runs, cur, prev, exit_code, stdout>>

Next ==
  \/ MainNoArgument
  \/ MainNotADirectory
  \/ Main
  \/ Tick

Spec == Init /\ [][Next]_vars

\* Invocations on the pack directory only, for what is said of completed runs:
\* pack directories of entity documents and a manifest.
PackPool ==
  ({PathA} \X EntityFiles) \cup ({PathB} \X OtherFiles)
    \cup ({ManifestPath} \X ManifestFiles)

InitPack ==
  /\ tree \in TreesUpTo(PackPool, MaxFiles)
  /\ dirName \in DirNames
  /\ argv = [path |-> "pack", manifest |-> FALSE]
  /\ Fresh

NextPack == Main \/ Tick

SpecPack == InitPack /\ [][NextPack]_vars

(***************************************************************************)
(* Properties.                                                             *)
(***************************************************************************)
\* The Navigation Map written by the latest run.
CurMap == cur.map[1]

\* The rows of the Entity Index printed by the latest run.
CurIndex == cur.index[1]

IdOf(e) == e.data["id"]

\* The category tables of a Navigation Map: the known ones, then the
\* domain-specific ones.
CategoryTables(m) == m.sections \o m.extended

\* The record is listed in the table of its category.
ListedIn(tbl, e) ==
  /\ tbl.kind = classify_kind(IdOf(e).s)
  /\ \E k \in DOMAIN tbl.rows : tbl.rows[k] = MapRow(e)

RECURSIVE SumCounts(_)
SumCounts(stats) ==
  IF stats = <<>> THEN 0 ELSE stats[1][3] + SumCounts(Tail(stats))

\* C1: category grouping is a partition: every collected record is listed in
\* exactly one category table of the Navigation Map, and the counts of the
\* statistics table sum to the total.
C1_Partition ==
  cur.map # <<>> =>
    /\ \A i \in DOMAIN cur.entities :
         Cardinality({j \in DOMAIN CategoryTables(CurMap) :
                        ListedIn(CategoryTables(CurMap)[j], cur.entities[i])}) = 1
    /\ SumCounts(CurMap.stats) = CurMap.total

\* C2: within one run, the records listed in the printed Entity Index are the
\* records counted in the Navigation Map: same identifiers, same total.
C2_SameRecords ==
  cur.stage = "done" =>
    /\ {CurIndex[k][1] : k \in DOMAIN CurIndex}
         = {IdOf(cur.entities[i]).s : i \in DOMAIN cur.entities}
    /\ Len(CurIndex) = CurMap.total

\* C3: two runs in succession with nothing else changing the tree write the same
\* Navigation Map, the embedded date apart (here: on the same day, the same
\* content).
C3_Idempotent ==
  (runs >= 2 /\ cur.stage = "done" /\ prev.stage = "done" /\ cur.date = prev.date)
    => cur.map = prev.map

\* C4: a run that finds no valid record prints a header-only Entity Index and
\* writes a Navigation Map whose total is 0.
C4_EmptyPack ==
  (cur.stage = "done" /\ cur.entities = <<>>) =>
    /\ CurIndex = <<>>
    /\ CurMap.total = 0

\* The frontmatter of the file is a mapping with the key.
FrontmatterHas(file, key) ==
  file.readable /\ file.fm = "dict" /\ Has(file.data, key)

\* The domain the ordered fallback of the specification gives: the pack_id of
\* the manifest's frontmatter; else the code of its "Pack ID" label; else the
\* first segment of the first usable identifier; else the directory name.
FallbackDomain(tr, name) ==
  IF ManifestPath \in DOMAIN tr /\ FrontmatterHas(tr[ManifestPath], "pack_id")
  THEN tr[ManifestPath].data["pack_id"]
  ELSE OrElse(ManifestLabel(tr),
         OrElse(FirstIdPrefix(RglobMd(tr), tr), Found(StrV(DirNameCode(name))))).v

\* C5: detect_domain follows the ordered fallback: the pack_id of the manifest's
\* frontmatter whenever there is one, and a later strategy only when every
\* earlier one yields nothing.
C5_OrderedFallback ==
  [][(runs' = runs + 1 /\ cur'.stage # "detect")
       => cur'.domain = FallbackDomain(tree, dirName)]_vars

\* A per-file soft failure: the file cannot be read, has no frontmatter block,
\* has frontmatter that does not parse or is no mapping, or has no id field.
SoftFailure(file) ==
  \/ ~file.readable
  \/ file.fm \in {"none", "yamlerr", "valerr", "nondict"}
  \/ ~Has(file.data, "id")

\* An entity document with nothing wrong in it.
WellFormed(file) ==
  /\ FrontmatterHas(file, "id")
  /\ file.data["id"].t = "str"
  /\ file.data["id"].s # <<>>
  /\ file.data["last_updated"].t # "datetime"

\* C6: per-file soft failures never abort a run: in a directory whose files are
\* soft failures or well-formed documents, a run ends with exit code 0 and the
\* Navigation Map written, and no soft failure yields a record.
C6_SoftFailures ==
  (runs >= 1 /\ \A p \in DOMAIN tree : SoftFailure(tree[p]) \/ WellFormed(tree[p]))
    => /\ exit_code = 0
       /\ cur.map # <<>>
       /\ \A i \in DOMAIN cur.entities : ~SoftFailure(tree[cur.entities[i].path])

\* last_updated is a valid ISO date or a date value.
ValidDate(e) ==
  \/ e.data["last_updated"].t = "date"
  \/ e.data["last_updated"].t = "str" /\ StrptimeOk(e.data["last_updated"].s)

\* The days from a valid last_updated to the date of the latest run.
Age(e) == cur.date - DayOf(e.data["last_updated"])

\* C7: a record is in the staleness table if and only if its last_updated is a
\* valid date more than 90 days before the run date (a record exactly 90 days
\* old is not), and the rows are in order of non-increasing day count.
C7_Staleness ==
  cur.map # <<>> =>
    /\ \A i \in DOMAIN cur.entities :
         ValidDate(cur.entities[i]) =>
           ((\E k \in DOMAIN CurMap.stale :
               CurMap.stale[k] = <<IdOf(cur.entities[i]).s, Age(cur.entities[i])>>)
              <=> Age(cur.entities[i]) > StaleDays)
    /\ Len(CurMap.stale)
         = Cardinality({i \in DOMAIN cur.entities :
                          ValidDate(cur.entities[i]) /\ Age(cur.entities[i]) > StaleDays})
    /\ \A k \in DOMAIN CurMap.stale :
         /\ CurMap.stale[k][2] > StaleDays
         /\ k > 1 => CurMap.stale[k - 1][2] >= CurMap.stale[k][2]

\* A written map has a staleness table and, next to it, a collected record that
\* is exactly 90 days old.
C7_Witness ==
  /\ cur.map # <<>>
  /\ CurMap.stale # <<>>
  /\ \E i \in DOMAIN cur.entities :
       ValidDate(cur.entities[i]) /\ Age(cur.entities[i]) = StaleDays

\* The warnings of the latest map that name the record's identifier and file name.
WarningsNaming(e) ==
  {k \in DOMAIN CurMap.warnings :
     CurMap.warnings[k] = <<Format(IdOf(e)), FileName(e.path)>>}

\* The collected records without a summary field that share the record's
\* identifier and file name.
UnsummarisedLike(e) ==
  {j \in DOMAIN cur.entities :
     /\ ~Has(cur.entities[j].data, "summary")
     /\ IdOf(cur.entities[j]) = IdOf(e)
     /\ FileName(cur.entities[j].path) = FileName(e.path)}

\* C8 as stated: a record without a summary field is named by exactly one
\* warning, a record with a summary field by none.
C8_ExactlyOne ==
  cur.map # <<>> =>
    \A i \in DOMAIN cur.entities :
      Cardinality(WarningsNaming(cur.entities[i]))
        = IF Has(cur.entities[i].data, "summary") THEN 0 ELSE 1

\* C8: there is one warning per collected record without a summary field: an
\* identifier and file name are named by as many warnings as there are such
\* records carrying them, and there are no other warnings.
C8_OnePerRecord ==
  cur.map # <<>> =>
    /\ \A i \in DOMAIN cur.entities :
         Cardinality(WarningsNaming(cur.entities[i]))
           = Cardinality(UnsummarisedLike(cur.entities[i]))
    /\ Len(CurMap.warnings)
         = Cardinality({i \in DOMAIN cur.entities :
                          ~Has(cur.entities[i].data, "summary")})

\* A written map warns twice about one identifier and file name: two documents
\* in different directories share both and neither has a summary.
C8_Witness ==
  /\ cur.map # <<>>
  /\ \E i \in DOMAIN cur.entities :
       /\ ~Has(cur.entities[i].data, "summary")
       /\ Cardinality(WarningsNaming(cur.entities[i])) = 2

\* C9: every collected record has an identifier that is present and non-empty.
C9_IdNonEmpty ==
  cur.stage = "done" =>
    \A i \in DOMAIN cur.entities :
      IdOf(cur.entities[i]).t = "str" /\ IdOf(cur.entities[i]).s # <<>>

\* The latest two runs completed, on the same day, and gave the same domain,
\* Navigation Map and Entity Index.
SameOutputs ==
  /\ cur.domain = prev.domain
  /\ cur.map = prev.map
  /\ cur.index = prev.index

Comparable == cur.stage = "done" /\ prev.stage = "done" /\ cur.date = prev.date

====
